---- MODULE Spec2Model ----
(***************************************************************************)
(* Customer-support agent: a model of                                      *)
(*   - the incremental knowledge-base synchronisation (rag_system.py),     *)
(*   - the tool-routing turn of the agent graph (agent_graph.py),          *)
(*   - the four capabilities and the relational store behind them          *)
(*     (agent_tools.py, database_utils.py),                                *)
(*   - the command-line loop and the /chat endpoint (main.py, api.py).     *)
(* Each subsystem has its own specification (SpecIndex, SpecTurn,          *)
(* SpecTools, SpecSession); the variables of the other subsystems stay at  *)
(* their initial value.                                                    *)
(***************************************************************************)
EXTENDS Integers, Sequences, FiniteSets, TLC

VARIABLES
    \* ---- documents directory, tracker file, vector store (rag_system.py)
    files,          \* documents/: filename -> [present, content, readable]
    dirExists,      \* os.path.exists(DOCUMENTS_DIR)
    tracker,        \* document_tracker.json: key -> [hash, filename, size]
    index,          \* the Chroma collection: chunk -> number of copies held
    parquet,        \* CHROMA_DIR lists a file ending in ".parquet"
    writesParquet,  \* the installed Chroma persistence writes .parquet files
    stack,          \* call stack of initialize_vectorstore frames
    runs,           \* top-level initialize_vectorstore calls so far
    edits,          \* edits of the documents directory so far
    ixg,            \* history of the indexing runs, read by the properties only
    \* ---- one call of process_graph_with_agent (agent_graph.py)
    tpc,            \* "idle", "agent", "tools", "end", "done"
    pass,           \* 0 none, 1 inside app.stream(...), 2 inside app.invoke(...)
    initial_state,  \* initial_state["chat_history"]
    chat_history,   \* AgentState.chat_history of the graph run in progress
    agent_outcome,  \* AgentState.agent_outcome of the graph run in progress
    cycles,         \* executions of the agent node in the graph run in progress
    log,            \* capability invocations executed since the call began
    returned,       \* the message process_graph_with_agent returned
    tg,             \* history of the call, read by the properties only
    \* ---- the relational store and the capabilities called on it
    \* ---- (database_utils.py, agent_tools.py)
    tickets,        \* table tickets, in order of its auto-increment id
    faq,            \* table faq: rows [question, answer]
    teams,          \* table teams: rows [name, bio]
    faqTable,       \* SHOW TABLES LIKE 'faq' finds the table
    clock,          \* CURRENT_TIMESTAMP of the store
    ncalls,         \* capability calls so far
    call,           \* the last capability call: its arguments and what its
                    \* lookups yielded, read by the properties only
    result,         \* what the last capability call returned, or Raised
    tickets0,       \* table tickets as the last capability call found it
    \* ---- the front ends (main.py, api.py)
    channel,        \* the front end this process runs: "cli", "api" or "none"
    history,        \* conversation_state.history of main.py
    running,        \* the loop of main() has not left
    printed,        \* what the last iteration of the loop printed
    handed,         \* what the last turn passed to the agent executor, read
                    \* by the properties only
    reply,          \* the response to the last POST /chat
    request         \* the last POST /chat

ixVars == <<files, dirExists, tracker, index, parquet, writesParquet, stack,
            runs, edits, ixg>>

turnVars == <<tpc, pass, initial_state, chat_history, agent_outcome, cycles,
              log, returned, tg>>

toolVars == <<tickets, faq, teams, faqTable, clock, ncalls, call, result,
              tickets0>>

sessVars == <<channel, history, running, printed, handed, reply, request>>

vars == <<ixVars, turnVars, toolVars, sessVars>>

\* What the actions of one subsystem leave alone.
ixOthers == <<turnVars, toolVars, sessVars>>

turnOthers == <<ixVars, toolVars, sessVars>>

toolsOthers == <<ixVars, turnVars, sessVars>>

(***************************************************************************)
(* Bounds of the model.                                                    *)
(***************************************************************************)
MaxRuns == 3        \* top-level indexing runs
MaxEdits == 2       \* edits of the documents directory
MaxDepth == 2       \* nested initialize_vectorstore frames
MaxCycles == 3      \* executions of the agent node the model follows per graph run
MaxCalls == 2       \* capability calls
MaxMessages == 12   \* messages of a conversation the model follows

(***************************************************************************)
(* The documents directory.                                                *)
(***************************************************************************)
\* The directory entries the model knows: a supported file and one that is
\* not.
Names == {"B.PDF", "n.md"}

\* os.path.splitext(filename)[1].lower()
Ext(n) == CASE n = "B.PDF" -> ".pdf"
            [] OTHER -> ".md"

supported_extensions == {".txt", ".pdf", ".docx", ".doc"}

\* File contents are short byte strings; a content starting with byte 2 is
\* one the document loader raises on (a corrupt file).
Contents == {<<0>>, <<1>>, <<0, 1>>, <<2>>}

NoFile == [present |-> FALSE, content |-> <<>>, readable |-> FALSE]

FileOf(c, r) == [present |-> TRUE, content |-> c, readable |-> r]

\* hashlib.md5 of the bytes, as an injective code of the byte string
\* (collisions are out of scope); the empty string has code 1.
RECURSIVE Md5(_)
Md5(c) == IF c = <<>> THEN 1 ELSE (c[1] + 1) + 4 * Md5(Tail(c))

\* get_file_hash: the digest, or None (0 here) when the file cannot be read.
get_file_hash(f) == IF f.readable THEN Md5(f.content) ELSE 0

\* os.path.getsize
getsize(f) == Len(f.content)

\* f"{filename}_{os.path.getsize(filepath)}": a supported filename ends in
\* its extension, so two supported files never share a key; the pair stands
\* for the string.
file_key(n, f) == <<n, getsize(f)>>

\* The entries the scan and the tracker update look at: supported extension,
\* a regular file, and a digest that could be computed.
Hashable(fs, n) ==
    /\ fs[n].present
    /\ Ext(n) \in supported_extensions
    /\ get_file_hash(fs[n]) # 0

\* get_new_or_modified_documents: the files whose key is not in the tracker
\* or whose stored hash differs.  (The list is in os.listdir order; only its
\* members matter here.)
get_new_or_modified_documents(fs, tr) ==
    {n \in Names :
        /\ Hashable(fs, n)
        /\ \/ file_key(n, fs[n]) \notin DOMAIN tr
           \/ tr[file_key(n, fs[n])].hash # get_file_hash(fs[n])}

\* A loader (TextLoader, PyPDFLoader, Docx2txtLoader) returns the document,
\* or raises: the file is gone, unreadable or corrupt.
Loads(f) == f.present /\ f.readable /\ f.content[1] # 2

\* load_documents(filepaths): the documents of the given files that load.
load_documents(fs, names) ==
    {<<n, fs[n].content>> : n \in {m \in names :
        Ext(m) \in supported_extensions /\ Loads(fs[m])}}

\* load_documents(None): every entry with a supported extension.
load_all_documents(fs) == load_documents(fs, {n \in Names : fs[n].present})

\* chunk_documents: the documents here are shorter than chunk_size, so each
\* is one chunk.
chunk_documents(docs) == docs

AllChunks == Names \X Contents

EmptyIndex == [ch \in AllChunks |-> 0]

\* An add_documents that first deletes the chunks held for the files of the
\* new chunks.
add_documents_replacing(ix, chunks) ==
    [ch \in AllChunks |-> IF ch \in chunks THEN 1
                          ELSE IF \E c \in chunks : c[1] = ch[1] THEN 0
                          ELSE ix[ch]]

\* vectorstore.add_documents / Chroma.from_documents: every chunk is added
\* under a fresh id, so a chunk already held is held once more.
add_documents(ix, chunks) ==
    [ch \in AllChunks |-> IF ch \in chunks THEN ix[ch] + 1 ELSE ix[ch]]

\* An update_document_tracker that writes the entries of the current files
\* only.
update_document_tracker_rebuilt(fs, tr) ==
    LET upd == {n \in Names : Hashable(fs, n)}
        newKeys == {file_key(n, fs[n]) : n \in upd}
    IN  [k \in newKeys |->
            [hash |-> get_file_hash(fs[k[1]]), filename |-> k[1], size |-> k[2]]]

\* update_document_tracker: an entry for every hashable file, the others kept.
\* (last_processed, the wall-clock time of the update, is left out.)
update_document_tracker(fs, tr) ==
    LET upd == {n \in Names : Hashable(fs, n)}
        newKeys == {file_key(n, fs[n]) : n \in upd}
    IN  [k \in DOMAIN tr \cup newKeys |->
            IF k \in newKeys
            THEN [hash |-> get_file_hash(fs[k[1]]), filename |-> k[1], size |-> k[2]]
            ELSE tr[k]]

(***************************************************************************)
(* initialize_vectorstore and get_vectorstore, one step per action.        *)
(***************************************************************************)
Top == stack[Len(stack)]

SetTop(f) == [stack EXCEPT ![Len(stack)] = f]

\* vectorstore_exists, computed when a call of initialize_vectorstore starts
vectorstore_exists == parquet

\* The frame of a call that starts now.
NewFrame == [pc |-> IF vectorstore_exists THEN "scan" ELSE "load",
             exists |-> vectorstore_exists,
             newDocs |-> {},
             docs |-> {}]

\* History kept for the properties.
\*   quiet  : the run in progress started after a completed run and no entry
\*            of the directory was edited since that earlier run began
\*   mod    : the file whose content was changed, when that was the one edit
\*            between the last completed run and this one (else "none")
\*   dirty  : an edit happened while the current or last run was in progress
\*   after  : the edits since the last run completed
\*   marked : files marked by the scans of the current run
\*   loaded : documents loaded by the current run
\*   idx0   : the index when the current run started
\*   tracked: update_document_tracker has executed in the current run
IxgInit == [quiet |-> FALSE, mod |-> "none", dirty |-> FALSE, after |-> <<>>,
            marked |-> {}, loaded |-> {}, idx0 |-> EmptyIndex, tracked |-> FALSE,
            scanned |-> FALSE]

\* main: initialize_vectorstore() is called with none in progress.
InitializeStart ==
    /\ stack = <<>>
    /\ runs < MaxRuns
    /\ runs' = runs + 1
    /\ stack' = <<NewFrame>>
    /\ ixg' = [ixg EXCEPT
                !.quiet = runs >= 1 /\ ~ixg.dirty /\ ixg.after = <<>>,
                !.mod = IF runs >= 1 /\ ~ixg.dirty /\ Len(ixg.after) = 1
                        THEN ixg.after[1] ELSE "none",
                !.dirty = FALSE, !.after = <<>>, !.marked = {}, !.loaded = {},
                !.idx0 = index, !.tracked = FALSE, !.scanned = FALSE]
    /\ UNCHANGED <<files, dirExists, tracker, index, parquet, writesParquet, edits>>
    /\ UNCHANGED ixOthers

\* new_documents = get_new_or_modified_documents(); the early return when
\* there are none.  The scan creates the documents directory when missing.
Scan ==
    /\ stack # <<>> /\ Top.pc = "scan"
    /\ LET nd == IF dirExists THEN get_new_or_modified_documents(files, tracker) ELSE {}
       IN  /\ stack' = SetTop([Top EXCEPT !.newDocs = nd,
                                  !.pc = IF nd = {} THEN "getvs_early" ELSE "load"])
           /\ ixg' = [ixg EXCEPT !.marked = @ \cup nd, !.scanned = TRUE]
    /\ dirExists' = TRUE
    /\ UNCHANGED <<files, tracker, index, parquet, writesParquet, runs, edits>>
    /\ UNCHANGED ixOthers

\* documents = load_documents(new_documents) or load_documents()
LoadStep ==
    /\ stack # <<>> /\ Top.pc = "load"
    /\ LET d == IF Top.exists THEN load_documents(files, Top.newDocs)
                ELSE load_all_documents(files)
       IN  /\ stack' = SetTop([Top EXCEPT !.docs = d,
                                  !.pc = IF d = {} THEN "empty"
                                         ELSE IF Top.exists THEN "getvs_add"
                                         ELSE "create"])
           /\ ixg' = [ixg EXCEPT !.loaded = @ \cup d]
    /\ UNCHANGED <<files, dirExists, tracker, index, parquet, writesParquet, runs, edits>>
    /\ UNCHANGED ixOthers

\* No documents: Chroma(...) opens or creates the (empty) collection.
CreateEmpty ==
    /\ stack # <<>> /\ Top.pc = "empty"
    /\ parquet' = (parquet \/ writesParquet)
    /\ stack' = SetTop([Top EXCEPT !.pc = "track"])
    /\ UNCHANGED <<files, dirExists, tracker, index, writesParquet, runs, edits, ixg>>
    /\ UNCHANGED ixOthers

\* Chroma.from_documents(chunks, persist_directory=CHROMA_DIR, ...): the
\* chunks are added to the persisted collection of that name.
CreateFromDocuments ==
    /\ stack # <<>> /\ Top.pc = "create"
    /\ index' = add_documents(index, chunk_documents(Top.docs))
    /\ parquet' = (parquet \/ writesParquet)
    /\ stack' = SetTop([Top EXCEPT !.pc = "track"])
    /\ UNCHANGED <<files, dirExists, tracker, writesParquet, runs, edits, ixg>>
    /\ UNCHANGED ixOthers

\* get_vectorstore() opens the collection and counts it.  At the early
\* return its value is returned; before add_documents the chunks are added.
GetVectorstoreOk ==
    /\ stack # <<>> /\ Top.pc \in {"getvs_early", "getvs_add"}
    /\ IF Top.pc = "getvs_early"
       THEN /\ stack' = SetTop([Top EXCEPT !.pc = "ret"])
            /\ UNCHANGED index
       ELSE /\ index' = add_documents(index, chunk_documents(Top.docs))
            /\ stack' = SetTop([Top EXCEPT !.pc = "track"])
    /\ UNCHANGED <<files, dirExists, tracker, parquet, writesParquet, runs, edits, ixg>>
    /\ UNCHANGED ixOthers

\* get_vectorstore(): opening fails, the except branch calls
\* initialize_vectorstore() again.
GetVectorstoreFails ==
    /\ stack # <<>> /\ Top.pc \in {"getvs_early", "getvs_add"}
    /\ Len(stack) < MaxDepth
    /\ stack' = Append(stack, NewFrame)
    /\ UNCHANGED <<files, dirExists, tracker, index, parquet, writesParquet, runs, edits, ixg>>
    /\ UNCHANGED ixOthers

\* vectorstore.add_documents(chunks) on the store the nested call returned
AddDocuments ==
    /\ stack # <<>> /\ Top.pc = "add"
    /\ index' = add_documents(index, chunk_documents(Top.docs))
    /\ stack' = SetTop([Top EXCEPT !.pc = "track"])
    /\ UNCHANGED <<files, dirExists, tracker, parquet, writesParquet, runs, edits, ixg>>
    /\ UNCHANGED ixOthers

\* update_document_tracker(): nothing is saved when the directory is missing
Track ==
    /\ stack # <<>> /\ Top.pc = "track"
    /\ tracker' = IF dirExists THEN update_document_tracker(files, tracker) ELSE tracker
    /\ stack' = SetTop([Top EXCEPT !.pc = "ret"])
    /\ ixg' = [ixg EXCEPT !.tracked = TRUE]
    /\ UNCHANGED <<files, dirExists, index, parquet, writesParquet, runs, edits>>
    /\ UNCHANGED ixOthers

\* return vectorstore: the caller, if any, is inside get_vectorstore's except
\* branch and goes on with the returned store.
Return ==
    /\ stack # <<>> /\ Top.pc = "ret"
    /\ LET rest == SubSeq(stack, 1, Len(stack) - 1)
           caller == rest[Len(rest)]
       IN  stack' = IF rest = <<>> THEN rest
                    ELSE [rest EXCEPT ![Len(rest)] =
                            [caller EXCEPT !.pc = IF caller.pc = "getvs_early"
                                                  THEN "ret" ELSE "add"]]
    /\ UNCHANGED <<files, dirExists, tracker, index, parquet, writesParquet, runs, edits, ixg>>
    /\ UNCHANGED ixOthers

\* The history after an edit of entry n; kind is "modify" when the content of
\* a readable supported file was replaced by another content.
Edited(n, kind) ==
    IF stack # <<>>
    THEN [ixg EXCEPT !.dirty = TRUE, !.quiet = FALSE, !.mod = "none"]
    ELSE [ixg EXCEPT !.quiet = FALSE, !.mod = "none",
                     !.after = Append(@, IF kind = "modify" THEN n ELSE "other")]

\* Somebody writes documents/n: a new file, or new content or permissions.
WriteFile(n, c, r) ==
    /\ edits < MaxEdits
    /\ dirExists
    /\ Ext(n) \notin supported_extensions => (c = <<0>> /\ r)
    /\ files[n] # FileOf(c, r)
    /\ files' = [files EXCEPT ![n] = FileOf(c, r)]
    /\ edits' = edits + 1
    /\ ixg' = Edited(n, IF /\ files[n].present /\ files[n].readable /\ r
                           /\ Ext(n) \in supported_extensions
                           /\ files[n].content # c
                        THEN "modify" ELSE "other")
    /\ UNCHANGED <<dirExists, tracker, index, parquet, writesParquet, stack, runs>>
    /\ UNCHANGED ixOthers

\* Somebody removes documents/n.
RemoveFile(n) ==
    /\ edits < MaxEdits
    /\ files[n].present
    /\ files' = [files EXCEPT ![n] = NoFile]
    /\ edits' = edits + 1
    /\ ixg' = Edited(n, "other")
    /\ UNCHANGED <<dirExists, tracker, index, parquet, writesParquet, stack, runs>>
    /\ UNCHANGED ixOthers

\* A fresh installation: no store, no tracker; the documents directory may
\* be missing or hold some files.
InitIndex ==
    /\ dirExists \in BOOLEAN
    /\ files \in [Names -> {NoFile, FileOf(<<0>>, TRUE)}]
    /\ ~dirExists => \A n \in Names : files[n] = NoFile
    /\ tracker = <<>>
    /\ index = EmptyIndex
    /\ parquet = FALSE
    /\ writesParquet \in BOOLEAN
    /\ stack = <<>>
    /\ runs = 0
    /\ edits = 0
    /\ ixg = IxgInit

IndexIdle ==
    /\ dirExists = TRUE
    /\ files = [n \in Names |-> NoFile]
    /\ tracker = <<>>
    /\ index = EmptyIndex
    /\ parquet = FALSE
    /\ writesParquet = FALSE
    /\ stack = <<>>
    /\ runs = 0
    /\ edits = 0
    /\ ixg = IxgInit

NextIndex ==
    \/ InitializeStart
    \/ Scan
    \/ LoadStep
    \/ CreateEmpty
    \/ CreateFromDocuments
    \/ GetVectorstoreOk
    \/ GetVectorstoreFails
    \/ AddDocuments
    \/ Track
    \/ Return
    \/ \E n \in Names, c \in Contents, r \in BOOLEAN : WriteFile(n, c, r)
    \/ \E n \in Names : RemoveFile(n)



(***************************************************************************)
(* One call of process_graph_with_agent: the graph agent -> should_continue *)
(* -> tools -> agent, run by app.stream and then by app.invoke.            *)
(***************************************************************************)
Texts == {"t1", "t2"}

\* The tool-call lists a response of the model may carry.
CallLists == {<<>>,
              <<"create_support_ticket_tool">>,
              <<"query_database_tool", "query_rag_tool">>}

HumanMessage(c) == [type |-> "human", content |-> c, tool_calls |-> <<>>]

\* AIMessage(content=c): additional_kwargs is empty, no tool calls
AIMessage(c) == [type |-> "ai", content |-> c, tool_calls |-> <<>>]

\* A message of the model that may carry tool calls in additional_kwargs
ModelMessage(c, calls) == [type |-> "ai", content |-> c, tool_calls |-> calls]

\* AgentExecutor(agent=agent, tools=..., verbose=True): the option
\* return_intermediate_steps keeps its default, so the result dictionary
\* has no "intermediate_steps" key.
return_intermediate_steps == FALSE

\* What agent_executor.invoke(...) may hand back:
\*   a message (with or without tool calls),
\*   a dictionary with the output text, the executor having run the tools
\*   the model asked for while it worked (steps),
\*   or something else (raw).
Results ==
    [kind : {"message"}, text : Texts, calls : CallLists, steps : {<<>>}, raw : {0}]
    \cup [kind : {"dict"}, text : Texts, calls : {<<>>},
          steps : CallLists, raw : {0}]
    \cup [kind : {"other"}, text : {"t1"}, calls : {<<>>}, steps : {<<>>}, raw : {0, 1}]

\* str(result) of a result that is neither a message nor a dictionary
ToStr(raw) == IF raw = 0 THEN "0" ELSE "1"

\* result.get("intermediate_steps", [])
intermediate_steps(r) == IF return_intermediate_steps THEN r.steps ELSE <<>>

\* A run_agent whose state update drops the history it was given.
run_agent_new_only(state, r) ==
    [agent_outcome |-> <<>>,
     chat_history |-> <<AIMessage(IF r.kind = "other" THEN ToStr(r.raw) ELSE r.text)>>]

\* A run_agent whose fallback branch leaves the scratchpad as it found it.
run_agent_keeps_scratchpad(state, r) ==
    IF r.kind = "message"
    THEN [agent_outcome |-> <<>>,
          chat_history |-> Append(state.chat_history, ModelMessage(r.text, r.calls))]
    ELSE IF r.kind = "dict"
    THEN [agent_outcome |-> intermediate_steps(r),
          chat_history |-> Append(state.chat_history, AIMessage(r.text))]
    ELSE [agent_outcome |-> state.agent_outcome,
          chat_history |-> Append(state.chat_history, AIMessage(ToStr(r.raw)))]

\* run_agent: the state the node returns for a result of the executor
run_agent(state, r) ==
    IF r.kind = "message"
    THEN [agent_outcome |-> <<>>,
          chat_history |-> Append(state.chat_history, ModelMessage(r.text, r.calls))]
    ELSE IF r.kind = "dict"
    THEN [agent_outcome |-> intermediate_steps(r),
          chat_history |-> Append(state.chat_history, AIMessage(r.text))]
    ELSE [agent_outcome |-> <<>>,
          chat_history |-> Append(state.chat_history, AIMessage(ToStr(r.raw)))]

\* should_continue: tool calls on the last message of the history
should_continue(state) ==
    IF state.chat_history[Len(state.chat_history)].tool_calls # <<>>
    THEN "continue_tool_call" ELSE "end"

\* The conversation histories a caller passes in.
Histories == {<<>>, <<HumanMessage("u0"), AIMessage("a0")>>}

UserInputs == {"u1"}

TgInit == [input |-> "", history |-> <<>>, requested |-> <<>>, graphRuns |-> 0,
           answer |-> "", kind |-> ""]

\* process_graph_with_agent(user_input, conversation_history) up to the start
\* of app.stream(initial_state)
ProcessStart(user_input, conversation_history) ==
    /\ tpc = "idle"
    /\ initial_state' = Append(conversation_history, HumanMessage(user_input))
    /\ chat_history' = initial_state'
    /\ agent_outcome' = <<>>
    /\ pass' = 1
    /\ cycles' = 0
    /\ tpc' = "agent"
    /\ tg' = [TgInit EXCEPT !.input = user_input, !.history = conversation_history,
                            !.graphRuns = 1]
    /\ UNCHANGED <<log, returned>>
    /\ UNCHANGED turnOthers

\* The agent node and the conditional edge after it.  The tools the executor
\* runs inside invoke take effect while the node runs.
RunAgent(r) ==
    /\ tpc = "agent"
    /\ cycles < MaxCycles
    /\ LET st == run_agent([chat_history |-> chat_history,
                            agent_outcome |-> agent_outcome], r)
       IN  /\ chat_history' = st.chat_history
           /\ agent_outcome' = st.agent_outcome
           /\ tpc' = IF should_continue(st) = "continue_tool_call" THEN "tools" ELSE "end"
    /\ cycles' = cycles + 1
    /\ log' = log \o r.steps
    /\ tg' = [tg EXCEPT !.requested = @ \o r.steps \o r.calls,
                        !.answer = IF r.kind = "other" THEN ToStr(r.raw) ELSE r.text,
                        !.kind = r.kind]
    /\ UNCHANGED <<pass, initial_state, returned>>
    /\ UNCHANGED turnOthers

\* The tools node (ToolNode(SUPPORT_AGENT_TOOLS)): the tool calls of the last
\* message are executed in their order and the results recorded; then the
\* edge back to the agent node.
ToolsNode ==
    /\ tpc = "tools"
    /\ LET calls == chat_history[Len(chat_history)].tool_calls
       IN  /\ log' = log \o calls
           /\ agent_outcome' = agent_outcome \o calls
    /\ tpc' = "agent"
    /\ UNCHANGED <<pass, initial_state, chat_history, cycles, returned, tg>>
    /\ UNCHANGED turnOthers

\* The for loop over app.stream(initial_state) is over; app.invoke(initial_state)
\* starts the graph again from the same initial state.
StreamDone ==
    /\ tpc = "end" /\ pass = 1
    /\ pass' = 2
    /\ chat_history' = initial_state
    /\ agent_outcome' = <<>>
    /\ cycles' = 0
    /\ tpc' = "agent"
    /\ tg' = [tg EXCEPT !.requested = <<>>, !.graphRuns = @ + 1, !.answer = "",
                        !.kind = ""]
    /\ UNCHANGED <<initial_state, log, returned>>
    /\ UNCHANGED turnOthers

\* return final_state["chat_history"][-1]
ReturnFinal ==
    /\ tpc = "end" /\ pass = 2
    /\ returned' = chat_history[Len(chat_history)]
    /\ tpc' = "done"
    /\ UNCHANGED <<pass, initial_state, chat_history, agent_outcome, cycles, log, tg>>
    /\ UNCHANGED turnOthers

TurnIdle ==
    /\ tpc = "idle"
    /\ pass = 0
    /\ initial_state = <<>>
    /\ chat_history = <<>>
    /\ agent_outcome = <<>>
    /\ cycles = 0
    /\ log = <<>>
    /\ returned = AIMessage("")
    /\ tg = TgInit

NextTurn ==
    \/ \E u \in UserInputs, h \in Histories : ProcessStart(u, h)
    \/ \E r \in Results : RunAgent(r)
    \/ ToolsNode
    \/ StreamDone
    \/ ReturnFinal

(***************************************************************************)
(* Text.  A Python str is the sequence of its characters; a literal the    *)
(* code builds into a message stays one element, so that                   *)
(* f"Ticket {ticket_id} not found." is <<"Ticket ">> \o ticket_id \o       *)
(* <<" not found.">>.  None, SQL NULL and a raised exception are elements  *)
(* no text contains.                                                       *)
(***************************************************************************)
None == <<"None">>

NULL == <<"NULL">>

Raised == <<"raise">>

LowerLetters ==
    <<"a", "b", "c", "d", "e", "f", "g", "h", "i", "j", "k", "l", "m", "n",
    "o", "p", "q", "r", "s", "t", "u", "v", "w", "x", "y", "z">>

UpperLetters ==
    <<"A", "B", "C", "D", "E", "F", "G", "H", "I", "J", "K", "L", "M", "N",
    "O", "P", "Q", "R", "S", "T", "U", "V", "W", "X", "Y", "Z">>

IsAlpha(c) == \E i \in 1..26 : LowerLetters[i] = c \/ UpperLetters[i] = c

\* str.lower / str.upper on one character
lower_char(c) ==
    IF \E i \in 1..26 : UpperLetters[i] = c
    THEN LowerLetters[CHOOSE i \in 1..26 : UpperLetters[i] = c] ELSE c

upper_char(c) ==
    IF \E i \in 1..26 : LowerLetters[i] = c
    THEN UpperLetters[CHOOSE i \in 1..26 : LowerLetters[i] = c] ELSE c

lower(s) == [i \in 1..Len(s) |-> lower_char(s[i])]

upper(s) == [i \in 1..Len(s) |-> upper_char(s[i])]

\* The whitespace of the texts modelled: blank and newline.
IsSpace(c) == c \in {" ", "\n"}

RECURSIVE lstrip(_)
lstrip(s) == IF s # <<>> /\ IsSpace(s[1]) THEN lstrip(Tail(s)) ELSE s

RECURSIVE rstrip(_)
rstrip(s) == IF s # <<>> /\ IsSpace(s[Len(s)])
             THEN rstrip(SubSeq(s, 1, Len(s) - 1)) ELSE s

\* str.strip()
strip(s) == rstrip(lstrip(s))

\* s[i-1:].startswith(p)
HasAt(s, i, p) == i + Len(p) - 1 <= Len(s) /\ SubSeq(s, i, i + Len(p) - 1) = p

\* p in s  (also SQL: s LIKE '%p%', the texts holding no % and no _)
Contains(p, s) == \E i \in 1..(Len(s) - Len(p) + 1) : HasAt(s, i, p)

\* Truth value of an optional text: None and "" are false.
Truthy(x) == x # None /\ x # <<>>

(***************************************************************************)
(* database_utils.py: keyword, name and question helpers.                  *)
(***************************************************************************)
stop_words ==
    {<<"t", "h", "e">>, <<"a">>, <<"a", "n">>, <<"a", "n", "d">>, <<"o", "r">>,
     <<"b", "u", "t">>, <<"i", "s">>, <<"a", "r", "e">>, <<"w", "a", "s">>,
     <<"w", "e", "r", "e">>, <<"w", "h", "a", "t">>, <<"w", "h", "e", "n">>,
     <<"w", "h", "e", "r", "e">>, <<"w", "h", "y">>, <<"h", "o", "w">>,
     <<"y", "o", "u", "r">>, <<"y", "o", "u">>, <<"m", "e">>, <<"m", "y">>,
     <<"o", "u", "r">>, <<"w", "e">>, <<"u", "s">>, <<"i">>, <<"h", "e">>, <<"s", "h", "e">>,
     <<"i", "t">>, <<"t", "h", "e", "y">>, <<"t", "h", "e", "m">>, <<"t", "h", "i", "s">>,
     <<"t", "h", "a", "t">>, <<"t", "h", "e", "s", "e">>, <<"t", "h", "o", "s", "e">>,
     <<"t", "o">>, <<"f", "o", "r">>, <<"w", "i", "t", "h">>, <<"b", "y">>,
     <<"a", "t">>, <<"o", "n">>, <<"i", "n">>, <<"o", "f">>, <<"a", "b", "o", "u", "t">>,
     <<"a", "s">>, <<"i", "f">>, <<"t", "h", "e", "n">>, <<"t", "h", "a", "n">>,
     <<"s", "o">>, <<"b", "e", "c", "a", "u", "s", "e">>, <<"c", "a", "n">>,
     <<"c", "o", "u", "l", "d">>, <<"w", "o", "u", "l", "d">>, <<"s", "h", "o", "u", "l", "d">>,
     <<"w", "i", "l", "l">>, <<"s", "h", "a", "l", "l">>, <<"m", "a", "y">>,
     <<"m", "i", "g", "h", "t">>}

general_keywords ==
    {<<"w", "h", "a", "t">>, <<"w", "h", "e", "n">>, <<"w", "h", "e", "r", "e">>,
     <<"w", "h", "y">>, <<"h", "o", "w">>, <<"c", "a", "n">>, <<"c", "o", "u", "l", "d">>,
     <<"w", "o", "u", "l", "d">>, <<"s", "h", "o", "u", "l", "d">>, <<"h", "o", "u", "r", "s">>,
     <<"t", "i", "m", "e">>, <<"o", "p", "e", "n">>, <<"c", "l", "o", "s", "e">>,
     <<"l", "o", "c", "a", "t", "i", "o", "n">>, <<"a", "d", "d", "r", "e", "s", "s">>,
     <<"c", "o", "n", "t", "a", "c", "t">>, <<"p", "h", "o", "n", "e">>,
     <<"e", "m", "a", "i", "l">>, <<"p", "r", "i", "c", "e">>, <<"c", "o", "s", "t">>,
     <<"s", "e", "r", "v", "i", "c", "e">>, <<"s", "u", "p", "p", "o", "r", "t">>,
     <<"h", "e", "l", "p">>, <<"b", "u", "s", "i", "n", "e", "s", "s">>,
     <<"w", "o", "r", "k">>, <<"o", "p", "e", "r", "a", "t", "i", "n", "g">>,
     <<"a", "v", "a", "i", "l", "a", "b", "l", "e">>, <<"h", "o", "u", "r">>,
     <<"s", "c", "h", "e", "d", "u", "l", "e">>, <<"t", "i", "m", "i", "n", "g">>}

\* re.findall(r"\b[a-zA-Z]{3,}\b", s): the maximal runs of letters, three or
\* more long (the texts modelled hold no digit and no underscore).
Words3(s) ==
    {SubSeq(s, i, j) : <<i, j>> \in {p \in (1..Len(s)) \X (1..Len(s)) :
        /\ p[2] - p[1] >= 2
        /\ \A k \in p[1]..p[2] : IsAlpha(s[k])
        /\ (p[1] = 1 \/ ~IsAlpha(s[p[1] - 1]))
        /\ (p[2] = Len(s) \/ ~IsAlpha(s[p[2] + 1]))}}

extract_keywords(question) == Words3(lower(question)) \ stop_words

is_general_question(question) ==
    \E k \in general_keywords : Contains(k, lower(question))

\* [a-zA-Z\s]
NameChar(c) == IsAlpha(c) \/ IsSpace(c)

\* The longest run of [a-zA-Z\s] characters of s from position i on.
RECURSIVE NameRun(_, _)
NameRun(s, i) == IF i <= Len(s) /\ NameChar(s[i])
                 THEN <<s[i]>> \o NameRun(s, i + 1) ELSE <<>>

name_prefixes ==
    {<<"w", "h", "o", " ", "i", "s">>,
     <<"t", "e", "l", "l", " ", "m", "e", " ", "a", "b", "o", "u", "t">>,
     <<"w", "h", "a", "t", " ", "d", "o", "e", "s">>, <<"w", "h", "o", "'", "s">>,
     <<"w", "h", "a", "t", " ", "i", "s">>}

\* First pattern, (?:who is|tell me about|what does|who's|what is)\s+([a-zA-Z\s]+):
\* a prefix at i, then whitespace, then at least one more name character.
Pattern1At(s, i) ==
    \E p \in name_prefixes :
        /\ HasAt(s, i, p)
        /\ i + Len(p) + 1 <= Len(s)
        /\ IsSpace(s[i + Len(p)])
        /\ NameChar(s[i + Len(p) + 1])

\* group(1).strip() of the leftmost match of the first pattern
Pattern1Name(s) ==
    LET i == CHOOSE k \in 1..Len(s) :
                 Pattern1At(s, k) /\ \A m \in 1..(k - 1) : ~Pattern1At(s, m)
        p == CHOOSE q \in name_prefixes : HasAt(s, i, q)
    IN  strip(NameRun(s, i + Len(p)))

\* Second pattern, ([a-zA-Z\s]+)(?:\'s)?(...)?$ : with no apostrophe in the
\* question it matches the run of name characters the question ends with.
Pattern2At(s, i) == i <= Len(s) /\ Len(NameRun(s, i)) = Len(s) - i + 1

Pattern2Name(s) ==
    LET i == CHOOSE k \in 1..Len(s) :
                 Pattern2At(s, k) /\ \A m \in 1..(k - 1) : ~Pattern2At(s, m)
    IN  strip(NameRun(s, i))

\* extract_name_from_question: the first pattern whose name is longer than
\* two characters; the capitalised-word fallback reads the lowered question
\* and finds no upper-case letter.
extract_name_from_question(question) ==
    LET s == strip(lower(question))
    IN  IF (\E i \in 1..Len(s) : Pattern1At(s, i)) /\ Len(Pattern1Name(s)) > 2
        THEN Pattern1Name(s)
        ELSE IF (\E i \in 1..Len(s) : Pattern2At(s, i)) /\ Len(Pattern2Name(s)) > 2
        THEN Pattern2Name(s)
        ELSE None

\* f"{result['name']}: {result['bio']}"
format_team_response(row) == row.name \o <<":", " ">> \o row.bio

(***************************************************************************)
(* The relational store (database_utils.py).  A table is the set or the    *)
(* sequence of its rows; every function opens its own connection, and      *)
(* `up` says whether get_db_connection succeeds for that call.  A query    *)
(* with LIMIT 1 whose ORDER BY leaves ties yields any of the tied rows, so *)
(* a lookup is the set of the values it may return.                        *)
(***************************************************************************)
\* Questions put to the lookup tools.
Questions == {<<"b", "o", "b">>, <<"W", "h", "a", "t", " ", "i", "s", " ", "B",
      "o", "b">>, <<"r", "e", "f", "u", "n", "d", "?">>}

\* extract_keywords, extract_name_from_question and is_general_question of
\* each of them, computed once.
KeywordsOf == [q \in Questions |-> extract_keywords(q)]

NameOf == [q \in Questions |-> extract_name_from_question(q)]

IsGeneral == [q \in Questions |-> is_general_question(q)]

\* Rows the faq table may hold.
FaqRows ==
    {[question |-> <<"W", "h", "a", "t", " ", "i", "s", " ", "B", "o", "b">>,
          answer |-> <<"l", "e", "a", "d">>],
     [question |-> <<"r", "e", "f", "u", "n", "d", " ", "p", "o", "l", "i",
           "c", "y">>, answer |-> <<"t", "e", "n", " ", "d", "a", "y", "s">>]}

\* Rows the teams table may hold.
TeamRows ==
    {[name |-> <<"B", "o", "b">>, bio |-> <<"d", "e", "v">>],
     [name |-> <<"B", "o", "b", "b", "y">>, bio |-> <<"o", "p", "s">>]}

\* The teams table as the program may find it: empty, holding Bob (an exact
\* match for "bob"), or holding only Bobby (a partial one).
TeamTables == {{}, TeamRows, {r \in TeamRows : r.name = <<"B", "o", "b", "b",
      "y">>}}

\* Values of uuid.uuid4().hex; the first two agree on their first eight digits.
UuidHex ==
    {<<"1", "a", "2", "b", "3", "c", "4", "d", "0", "0", "0", "0", "0", "0",
          "0", "0", "0", "0", "0", "0", "0", "0", "0", "0", "0", "0", "0", "0",
          "0", "0", "0", "1">>,
     <<"1", "a", "2", "b", "3", "c", "4", "d", "0", "0", "0", "0", "0", "0",
           "0", "0", "0", "0", "0", "0", "0", "0", "0", "0", "0", "0", "0",
           "0", "0", "0", "0", "2">>,
     <<"f", "f", "e", "e", "0", "0", "0", "1", "0", "0", "0", "0", "0", "0",
           "0", "0", "0", "0", "0", "0", "0", "0", "0", "0", "0", "0", "0",
           "0", "0", "0", "0", "3">>}

UserNames == {<<"a", "n", "o", "n", "y", "m", "o", "u", "s">>}

\* f"TKT-{uuid.uuid4().hex[:8].upper()}"
new_ticket_id(hex) == <<"T", "K", "T", "-">> \o upper(SubSeq(hex, 1, 8))

\* INSERT INTO tickets: ticket_id is UNIQUE, response defaults to NULL and
\* created_at to the current timestamp; any error yields None.
\* A create_support_ticket on a table whose ticket_id column is not UNIQUE.
create_support_ticket_no_unique(tk, user_name, issue, hex, up, now) ==
    LET ticket_id == new_ticket_id(hex)
    IN  IF ~up
        THEN [ticket_id |-> None, tickets |-> tk]
        ELSE [ticket_id |-> ticket_id,
              tickets |-> Append(tk, [ticket_id |-> ticket_id,
                                      user_name |-> user_name,
                                      issue |-> issue,
                                      response |-> NULL,
                                      status |-> "open",
                                      created_at |-> now])]

create_support_ticket(tk, user_name, issue, hex, up, now) ==
    LET ticket_id == new_ticket_id(hex)
    IN  IF ~up \/ \E i \in DOMAIN tk : tk[i].ticket_id = ticket_id
        THEN [ticket_id |-> None, tickets |-> tk]
        ELSE [ticket_id |-> ticket_id,
              tickets |-> Append(tk, [ticket_id |-> ticket_id,
                                      user_name |-> user_name,
                                      issue |-> issue,
                                      response |-> NULL,
                                      status |-> "open",
                                      created_at |-> now])]

\* UPDATE tickets SET response, status WHERE ticket_id
update_ticket_response(tk, ticket_id, response, status, up) ==
    IF ~up THEN tk
    ELSE [i \in DOMAIN tk |->
            IF tk[i].ticket_id = ticket_id
            THEN [tk[i] EXCEPT !.response = response, !.status = status]
            ELSE tk[i]]

\* A call that returns a row of tickets may return None, or raise, instead.
NoRow == [none |-> TRUE]

RaisedRow == [raised |-> TRUE]

\* A get_ticket_by_id that lets the connection error out.
get_ticket_by_id_uncaught(tk, ticket_id, up) ==
    IF ~up THEN RaisedRow
    ELSE IF \E i \in DOMAIN tk : tk[i].ticket_id = ticket_id
         THEN tk[CHOOSE i \in DOMAIN tk : tk[i].ticket_id = ticket_id]
         ELSE NoRow

\* SELECT ... WHERE ticket_id = %s, fetchone(); any error yields None.
get_ticket_by_id(tk, ticket_id, up) ==
    IF ~up THEN NoRow
    ELSE IF \E i \in DOMAIN tk : tk[i].ticket_id = ticket_id
         THEN tk[CHOOSE i \in DOMAIN tk : tk[i].ticket_id = ticket_id]
         ELSE NoRow

\* SELECT response FROM tickets WHERE issue = %s AND response IS NOT NULL
\* ORDER BY created_at DESC LIMIT 1
query_ticket_answer(tk, question, up) ==
    LET m == {i \in DOMAIN tk : tk[i].issue = question /\ tk[i].response # NULL}
        newest == {i \in m : \A j \in m : tk[j].created_at <= tk[i].created_at}
    IN  IF ~up \/ m = {} THEN {None} ELSE {tk[i].response : i \in newest}

\* Exact match on LOWER(name), then LIKE %name%, LIMIT 1 each.
query_team_info(tm, question, up) ==
    LET name == NameOf[question]
        exact == {r \in tm : lower(r.name) = lower(name)}
        partial == {r \in tm : Contains(lower(name), lower(r.name))}
    IN  IF name = None \/ ~up THEN {None}
        ELSE IF exact # {} THEN {format_team_response(r) : r \in exact}
        ELSE IF partial # {} THEN {format_team_response(r) : r \in partial}
        ELSE {None}

\* LOWER(question) LIKE %p% OR LOWER(answer) LIKE %p%
FaqLike(p, row) == Contains(p, lower(row.question)) \/ Contains(p, lower(row.answer))

\* The last query of query_faq: the whole question as the pattern,
\* ORDER BY LENGTH(question) LIMIT 1.
FaqByQuestion(fq, question) ==
    LET m == {r \in fq : FaqLike(lower(question), r)}
        best == {r \in m : \A o \in m : Len(r.question) <= Len(o.question)}
    IN  IF m = {} THEN {None} ELSE {r.answer : r \in best}

\* The keyword query of query_faq.  The statement's placeholders are, in
\* order, the two of the CASE and then two per keyword in the WHERE; params
\* holds two per keyword and then the whole question twice.  So the CASE is
\* fed the first keyword k1, and the WHERE the remaining keywords and the
\* whole question.  keywords is list(set(...)): any of them may come first.
FaqByKeywords(fq, question, kws, k1) ==
    LET m == {r \in fq : \/ \E k \in kws \ {k1} : FaqLike(k, r)
                         \/ FaqLike(lower(question), r)}
        relevance(r) == IF Contains(k1, lower(r.question)) THEN 1
                        ELSE IF Contains(k1, lower(r.answer)) THEN 2 ELSE 3
        before(r, o) == \/ relevance(r) < relevance(o)
                        \/ /\ relevance(r) = relevance(o)
                           /\ Len(r.question) <= Len(o.question)
        best == {r \in m : \A o \in m : before(r, o)}
    IN  IF m = {} THEN FaqByQuestion(fq, question) ELSE {r.answer : r \in best}

\* query_faq(question), llm being None when the tool calls it.
query_faq(fq, table, question, up) ==
    LET kws == KeywordsOf[question]
    IN  IF ~up \/ ~table THEN {None}
        ELSE IF kws = {} THEN FaqByQuestion(fq, question)
        ELSE UNION {FaqByKeywords(fq, question, kws, k1) : k1 \in kws}

\* A database_query_tool that tries the FAQ first whatever the question.
database_query_tool_faq_first(question, faq_result, team_result) ==
    IF Truthy(faq_result) THEN [response |-> faq_result, found |-> TRUE]
    ELSE IF Truthy(team_result) THEN [response |-> team_result, found |-> TRUE]
    ELSE [response |-> <<"No information found.">>, found |-> FALSE]

\* database_query_tool, on what its two lookups yield for the question.
database_query_tool(question, faq_result, team_result) ==
    IF IsGeneral[question] /\ Truthy(faq_result)
    THEN [response |-> faq_result, found |-> TRUE]
    ELSE IF Truthy(team_result)
    THEN [response |-> team_result, found |-> TRUE]
    ELSE IF ~IsGeneral[question] /\ Truthy(faq_result)
    THEN [response |-> faq_result, found |-> TRUE]
    ELSE [response |-> <<"No information found.">>, found |-> FALSE]

(***************************************************************************)
(* The four capabilities (agent_tools.py).  Raised stands for an exception *)
(* leaving the function.                                                   *)
(***************************************************************************)
NO_INFO_FOUND == <<"___NO_INFO_FOUND___">>

\* f"Database query error: {str(e)}"
DatabaseQueryError == <<"Database query error: ", "e">>

\* f"RAG search error: {str(e)}"
RagSearchError == <<"RAG search error: ", "e">>

NoTicketCreated == <<"Okay, no ticket was created.">>

\* query_database_tool, on what query_ticket_answer and db_query returned.
query_database_tool(ticket_answer, db_result) ==
    IF ticket_answer = Raised THEN DatabaseQueryError
    ELSE IF Truthy(ticket_answer) THEN ticket_answer
    ELSE IF db_result.found THEN db_result.response
    ELSE NO_INFO_FOUND

\* Answers typed at the confirmation prompt.
ConfirmInputs == {<<" ", "Y", " ">>, <<"Y", "e", "s", "\n">>, <<"n", "o">>,
      <<"y", "e", "s", "s">>}

\* A confirmation check that does not strip the answer.
confirmed_unstripped(raw) == lower(raw) \in {<<"y", "e", "s">>, <<"y">>}

\* input(...).strip().lower() in ["yes", "y"]
confirmed(raw) == lower(strip(raw)) \in {<<"y", "e", "s">>, <<"y">>}

\* create_support_ticket_tool(user_question, user_name), raw being what the
\* user types at the prompt: the text returned, the tickets table left
\* behind and the id create_support_ticket gave, if it was called.
create_support_ticket_tool(tk, user_question, user_name, raw, hex, up, now) ==
    LET made == create_support_ticket(tk, user_name, user_question, hex, up, now)
    IN  IF ~confirmed(raw)
        THEN [result |-> NoTicketCreated, tickets |-> tk, ticket_id |-> None]
        ELSE IF made.ticket_id = Raised
        THEN [result |-> Raised, tickets |-> made.tickets, ticket_id |-> None]
        ELSE IF Truthy(made.ticket_id)
        THEN [result |-> <<"Support ticket #">> \o made.ticket_id
                  \o <<" created successfully. Our team will respond soon.">>,
              tickets |-> made.tickets, ticket_id |-> made.ticket_id]
        ELSE [result |-> <<"Failed to create a support ticket. Please try again later.">>,
              tickets |-> made.tickets, ticket_id |-> None]

\* A check_ticket_status_tool without its `if not ticket` test: None is
\* subscripted and the TypeError leaves the function.
check_ticket_status_tool_unguarded(ticket_id, ticket) ==
    IF ticket = RaisedRow \/ ticket = NoRow THEN Raised
    ELSE IF ticket.response # NULL /\ ticket.response # <<>>
    THEN <<"Ticket ">> \o ticket_id \o <<" (", ticket.status, ")\nIssue: ">>
             \o ticket.issue \o <<"\nResponse: ">> \o ticket.response
    ELSE <<"Ticket ">> \o ticket_id \o <<" (", ticket.status, ")\nIssue: ">>
             \o ticket.issue \o <<"\nResponse: Pending from support.">>

\* check_ticket_status_tool, on what get_ticket_by_id returned.
check_ticket_status_tool(ticket_id, ticket) ==
    IF ticket = RaisedRow THEN Raised
    ELSE IF ticket = NoRow
    THEN <<"Ticket ">> \o ticket_id \o <<" not found.">>
    ELSE IF ticket.response # NULL /\ ticket.response # <<>>
    THEN <<"Ticket ">> \o ticket_id \o <<" (", ticket.status, ")\nIssue: ">>
             \o ticket.issue \o <<"\nResponse: ">> \o ticket.response
    ELSE <<"Ticket ">> \o ticket_id \o <<" (", ticket.status, ")\nIssue: ">>
             \o ticket.issue \o <<"\nResponse: Pending from support.">>

\* What get_vectorstore() gives rag_search: an exception, or a store and
\* its _collection.count().
StoreOutcomes == {[ok |-> FALSE, count |-> 0], [ok |-> TRUE, count |-> 0],
                  [ok |-> TRUE, count |-> 1]}

\* Questions put to query_rag_tool; what is retrieved for one and what the
\* language model makes of it are drawn separately.
RagQuestions == {<<"r", "e", "f", "u", "n", "d", "?">>}

\* What retriever.invoke(query) gives: an exception or the chunks found.
RetrievedDocs == {Raised, <<>>, <<"chunk">>}

\* What llm.invoke(...) gives: an exception or response.content.
LlmOutcomes ==
    {Raised, <<>>, <<" ">> \o <<"T", "e", "n", " ", "d", "a", "y", "s",
          ".">> \o <<"\n">>,
     <<"I", " ", "C", "o", "u", "l", "d", "n", "'", "t", " ", "f", "i", "n",
           "d", " ", "i", "t">>}

no_information_phrases ==
    {<<"n", "o", "t", " ", "i", "n", " ", "t", "h", "e", " ", "d", "o", "c",
          "u", "m", "e", "n", "t", "a", "t", "i", "o", "n">>, <<"c", "o", "u",
          "l", "d", "n", "'", "t", " ", "f", "i", "n", "d">>,
     <<"d", "o", "n", "'", "t", " ", "h", "a", "v", "e", " ", "t", "h", "a",
           "t", " ", "i", "n", "f", "o", "r", "m", "a", "t", "i", "o", "n">>,
           <<"n", "o", "t", " ", "c", "o", "n", "t", "a", "i", "n", "e",
           "d">>}

\* An llm_invoked that forgets the count() == 0 return.
llm_invoked_uncounted(store, relevant_docs) ==
    store.ok /\ relevant_docs # Raised /\ relevant_docs # <<>>

\* rag_search reaches llm.invoke: get_vectorstore() gave a store, the store
\* holds a chunk, and the retriever gave at least one.
llm_invoked(store, relevant_docs) ==
    /\ store.ok
    /\ store.count # 0
    /\ relevant_docs # Raised
    /\ relevant_docs # <<>>

\* A rag_search that looks for the phrases in the answer as it is spelled.
rag_search_as_spelled(store, relevant_docs, response) ==
    IF ~llm_invoked(store, relevant_docs) \/ response = Raised
    THEN None
    ELSE LET response_text == strip(response)
         IN  IF \E phrase \in no_information_phrases :
                    Contains(phrase, response_text)
             THEN None
             ELSE response_text

\* rag_search: every exception inside it yields None.
rag_search(store, relevant_docs, response) ==
    IF ~llm_invoked(store, relevant_docs) \/ response = Raised
    THEN None
    ELSE LET response_text == strip(response)
         IN  IF \E phrase \in no_information_phrases :
                    Contains(phrase, lower(response_text))
             THEN None
             ELSE response_text

\* query_rag_tool, on what rag_search returned.
query_rag_tool(rag_result) ==
    IF rag_result = Raised THEN RagSearchError
    ELSE IF Truthy(rag_result) THEN rag_result
    ELSE <<"No relevant information found in documentation.">>

\* Ids asked of check_ticket_status_tool and answered by human support.
TicketIds == {new_ticket_id(hex) : hex \in UuidHex} \cup {<<"T", "K", "T", "-",
      "0">>}

\* Answers human support writes.
Responses == {<<"c", "a", "l", "l", " ", "u", "s">>, <<>>}

\* Questions a ticket is opened for.
TicketQuestions == {<<"b", "o", "b">>}

Lookups == {"ticket", "faq", "team"}

NoCall ==
    [tool |-> "none", question |-> <<>>, confirm |-> <<>>, ticket_id |-> <<>>,
     errors |-> {}, ticket_answer |-> None, faq_result |-> None,
     team_result |-> None, store |-> [ok |-> FALSE, count |-> 0],
     relevant_docs |-> <<>>, response |-> None, rag_result |-> None]

\* The lookups of one query_database_tool call that met a store error: the
\* ticket lookup always runs, the second of the two others only when the
\* first found nothing, and the team lookup connects only with a name.
LookupErrors(question, fail, faq_result, team_result) ==
    LET general == IsGeneral[question]
        faqRuns == general \/ ~Truthy(team_result)
        teamRuns == /\ NameOf[question] # None
                    /\ (~general \/ ~Truthy(faq_result))
    IN  (fail \cap {"ticket"})
            \cup (IF faqRuns THEN fail \cap {"faq"} ELSE {})
            \cup (IF teamRuns THEN fail \cap {"team"} ELSE {})

\* The model calls query_database_tool(question).
QueryDatabase(question, fail) ==
    /\ ncalls < MaxCalls
    /\ \E ticket_answer \in query_ticket_answer(tickets, question, "ticket" \notin fail),
          faq_result \in query_faq(faq, faqTable, question, "faq" \notin fail),
          team_result \in query_team_info(teams, question, "team" \notin fail) :
            /\ result' = query_database_tool(ticket_answer,
                             database_query_tool(question, faq_result, team_result))
            /\ call' = [NoCall EXCEPT !.tool = "query_database_tool",
                                      !.question = question,
                                      !.errors = LookupErrors(question, fail,
                                                     faq_result, team_result),
                                      !.ticket_answer = ticket_answer,
                                      !.faq_result = faq_result,
                                      !.team_result = team_result]
    /\ ncalls' = ncalls + 1
    /\ tickets0' = tickets
    /\ UNCHANGED <<tickets, faq, teams, faqTable, clock>>
    /\ UNCHANGED toolsOthers

\* The model calls query_rag_tool(question).
QueryRag(question, store, relevant_docs, response) ==
    /\ ncalls < MaxCalls
    /\ result' = query_rag_tool(rag_search(store, relevant_docs, response))
    /\ call' = [NoCall EXCEPT !.tool = "query_rag_tool",
                              !.store = store,
                              !.relevant_docs = relevant_docs,
                              !.response = response,
                              !.rag_result = rag_search(store, relevant_docs,
                                                        response),
                              !.errors = IF store.ok /\ response # Raised
                                            /\ relevant_docs # Raised
                                         THEN {} ELSE {"index"}]
    /\ ncalls' = ncalls + 1
    /\ tickets0' = tickets
    /\ UNCHANGED <<tickets, faq, teams, faqTable, clock>>
    /\ UNCHANGED toolsOthers

\* The model calls create_support_ticket_tool(user_question, user_name); the
\* user types raw at the prompt.  Time passes between two calls, so no two
\* tickets share their created_at.
CreateSupportTicket(user_question, user_name, raw, hex, up) ==
    /\ ncalls < MaxCalls
    /\ LET out == create_support_ticket_tool(tickets, user_question, user_name,
                                             raw, hex, up, clock + 1)
       IN  /\ result' = out.result
           /\ tickets' = out.tickets
           /\ clock' = clock + 1
           /\ call' = [NoCall EXCEPT !.tool = "create_support_ticket_tool",
                                     !.question = user_question,
                                     !.confirm = raw,
                                     !.ticket_id = out.ticket_id,
                                     !.errors = IF confirmed(raw) /\ ~up
                                                THEN {"ticket"} ELSE {}]
    /\ ncalls' = ncalls + 1
    /\ tickets0' = tickets
    /\ UNCHANGED <<faq, teams, faqTable>>
    /\ UNCHANGED toolsOthers

\* The model calls check_ticket_status_tool(ticket_id).
CheckTicketStatus(ticket_id, up) ==
    /\ ncalls < MaxCalls
    /\ result' = check_ticket_status_tool(ticket_id,
                     get_ticket_by_id(tickets, ticket_id, up))
    /\ call' = [NoCall EXCEPT !.tool = "check_ticket_status_tool",
                              !.ticket_id = ticket_id,
                              !.errors = IF up THEN {} ELSE {"ticket"}]
    /\ ncalls' = ncalls + 1
    /\ tickets0' = tickets
    /\ UNCHANGED <<tickets, faq, teams, faqTable, clock>>
    /\ UNCHANGED toolsOthers

\* Human support answers a ticket: update_ticket_response(ticket_id, response),
\* status keeping its default "closed".  The model follows the answers given
\* while a capability call is still to come.
UpdateTicketResponse(ticket_id, response, up) ==
    /\ ncalls < MaxCalls
    /\ \E i \in DOMAIN tickets : tickets[i].ticket_id = ticket_id
    /\ tickets' = update_ticket_response(tickets, ticket_id, response, "closed", up)
    /\ UNCHANGED <<faq, teams, faqTable, clock, ncalls, call, result, tickets0>>
    /\ UNCHANGED toolsOthers

\* The store as the program finds it: init_ticket_db has created an empty
\* tickets table; faq and teams are filled, or missing, from outside.
InitTools ==
    /\ tickets = <<>>
    /\ teams \in TeamTables
    /\ faqTable \in BOOLEAN
    /\ faq = IF faqTable THEN FaqRows ELSE {}
    /\ clock = 0
    /\ ncalls = 0
    /\ call = NoCall
    /\ result = None
    /\ tickets0 = <<>>

ToolsIdle ==
    /\ tickets = <<>>
    /\ teams = {}
    /\ faq = {}
    /\ faqTable = FALSE
    /\ clock = 0
    /\ ncalls = 0
    /\ call = NoCall
    /\ result = None
    /\ tickets0 = <<>>

NextTools ==
    \/ \E question \in Questions, fail \in SUBSET Lookups :
          QueryDatabase(question, fail)
    \/ \E question \in RagQuestions, store \in StoreOutcomes,
          relevant_docs \in RetrievedDocs, response \in LlmOutcomes :
          QueryRag(question, store, relevant_docs, response)
    \/ \E user_question \in TicketQuestions, user_name \in UserNames,
          raw \in ConfirmInputs, hex \in UuidHex, up \in BOOLEAN :
          CreateSupportTicket(user_question, user_name, raw, hex, up)
    \/ \E ticket_id \in TicketIds, up \in BOOLEAN :
          CheckTicketStatus(ticket_id, up)
    \/ \E ticket_id \in TicketIds, response \in Responses, up \in BOOLEAN :
          UpdateTicketResponse(ticket_id, response, up)

(***************************************************************************)
(* The two front ends: the command-line loop (main.py) and the /chat       *)
(* endpoint (api.py).  A process runs one of them.  Here a turn of the     *)
(* agent is the response that ends it; the capabilities a turn executes    *)
(* on its way are followed by the specifications above.                    *)
(***************************************************************************)
conversational_keywords ==
    {<<"h", "e", "l", "l", "o">>, <<"h", "i">>, <<"h", "e", "y">>, <<"h", "o", "w", " ", "a", "r", "e", " ", "y", "o", "u">>, <<"g", "o", "o", "d", " ", "m", "o", "r", "n", "i", "n", "g">>,
     <<"g", "o", "o", "d", " ", "a", "f", "t", "e", "r", "n", "o", "o", "n">>, <<"g", "o", "o", "d", " ", "e", "v", "e", "n", "i", "n", "g">>}

goodbye_keywords ==
    {<<"b", "y", "e">>, <<"g", "o", "o", "d", "b", "y", "e">>, <<"s", "e", "e", " ", "y", "o", "u">>, <<"f", "a", "r", "e", "w", "e", "l", "l">>, <<"t", "a", "k", "e", " ", "c", "a", "r", "e">>}

is_conversational(query) ==
    \E keyword \in conversational_keywords : Contains(keyword, strip(lower(query)))

is_goodbye(query) ==
    \E keyword \in goodbye_keywords : Contains(keyword, strip(lower(query)))

handle_conversational_query(query) ==
    LET query_lower == strip(lower(query))
    IN  IF \E greeting \in {<<"h", "e", "l", "l", "o">>, <<"h", "i">>, <<"h", "e", "y">>, <<"h", "o", "w", "d", "y">>} :
               Contains(greeting, query_lower)
        THEN <<"Hello! I'm your autonomous customer support agent. How can I help you today?">>
        ELSE IF Contains(<<"h", "o", "w", " ", "a", "r", "e", " ", "y", "o", "u">>, query_lower)
        THEN <<"I'm functioning well, thank you! I'm here to help you with any questions using my available tools.">>
        ELSE IF \E morning \in {<<"g", "o", "o", "d", " ", "m", "o", "r", "n", "i", "n", "g">>, <<"m", "o", "r", "n", "i", "n", "g">>} :
                    Contains(morning, query_lower)
        THEN <<"Good morning! What can I assist you with today?">>
        ELSE IF is_goodbye(query_lower)
        THEN <<"Goodbye! Thank you for chatting with me. Have a great day!">>
        ELSE <<"I'm here to help! How can I assist you today?">>

\* What the user types at "User: " or posts as user_input.
SessionInputs == {<<"h", "i">>, <<"b", "y", "e", " ", "n", "o", "w">>, <<"r", "e", "f", "u", "n", "d", "?">>, <<" ", "Q", " ">>}

\* The text of the response that ends a turn.
AnswerTexts == {<<"t", "e", "n", " ", "d", "a", "y", "s">>, <<" ", "___NO_INFO_FOUND___", "\n">>}

\* The results of agent_executor.invoke that end a turn, or the exception
\* that leaves it.
FinalResults ==
    [kind : {"dict"}, text : AnswerTexts, calls : {<<>>}, steps : {<<>>},
     raw : {0}] \cup {RaisedRow}

\* What run_agent passes to agent_executor.invoke for a history
ExecutorInput(messages) ==
    [input |-> messages[Len(messages)].content,
     chat_history |-> SubSeq(messages, 1, Len(messages) - 1)]

\* process_graph_with_agent(user_input, conversation_history) for a turn
\* that the result r ends: the last message of the final state.
process_graph_with_agent(user_input, conversation_history, r) ==
    IF r = RaisedRow THEN RaisedRow
    ELSE LET initial == Append(conversation_history, HumanMessage(user_input))
             final == run_agent([chat_history |-> initial,
                                 agent_outcome |-> <<>>], r)
         IN  final.chat_history[Len(final.chat_history)]

\* ConversationState.get_history with an unbounded slice.
get_history_unbounded(self_history) == self_history

\* ConversationState.get_history: self.history[-10:]
get_history(self_history) ==
    IF Len(self_history) <= 10 THEN self_history
    ELSE SubSeq(self_history, Len(self_history) - 9, Len(self_history))

\* ConversationState.add_message
add_message(self_history, role, content) ==
    IF role = "user" THEN Append(self_history, HumanMessage(content))
    ELSE IF role = "assistant" THEN Append(self_history, AIMessage(content))
    ELSE self_history

NoHanded == [input |-> <<>>, chat_history |-> <<>>, conversation |-> <<>>,
             turn |-> FALSE]

QuitWords == {<<"q", "u", "i", "t">>, <<"e", "x", "i", "t">>, <<"q">>}

YesWords == {<<"y", "e", "s">>, <<"y">>}

Anonymous == <<"a", "n", "o", "n", "y", "m", "o", "u", "s">>

\* The classification of each input, computed once.
IsQuit == [q \in SessionInputs |-> lower(strip(q)) \in QuitWords]

IsChat == [q \in SessionInputs |->
              is_conversational(strip(q)) \/ is_goodbye(strip(q))]

ChatReply == [q \in SessionInputs |-> handle_conversational_query(strip(q))]

\* One iteration of the loop of main(): the user types raw; r ends the turn
\* of the agent if there is one; raw2 answers the offer of a ticket, and hex
\* and up are the uuid and the store's reach of create_support_ticket.
CliTurn(raw) ==
    /\ channel = "cli" /\ running
    /\ Len(history) <= MaxMessages
    /\ LET user_input == strip(raw)
       IN  IF IsQuit[raw]
           THEN /\ printed' = <<"Goodbye! Thank you for using our support service.">>
                /\ running' = FALSE
                /\ handed' = NoHanded
                /\ UNCHANGED <<history, tickets, clock>>
           ELSE IF IsChat[raw]
           THEN /\ printed' = <<"Assistant: ">> \o ChatReply[raw]
                /\ handed' = NoHanded
                /\ UNCHANGED <<history, running, tickets, clock>>
           ELSE \E r \in FinalResults :
                LET conversation_history == get_history(history)
                    response_message ==
                        process_graph_with_agent(user_input, conversation_history, r)
                    response_content == response_message.content
                    executor == ExecutorInput(Append(conversation_history,
                                                     HumanMessage(user_input)))
                IN  /\ handed' = [input |-> executor.input,
                                  chat_history |-> executor.chat_history,
                                  conversation |-> history, turn |-> TRUE]
                    /\ IF response_message = RaisedRow
                       THEN /\ printed' = <<"Error: ">>
                            /\ running' = FALSE
                            /\ UNCHANGED <<history, tickets, clock>>
                       ELSE /\ history' = add_message(
                                    add_message(history, "user", user_input),
                                    "assistant", response_content)
                            /\ running' = running
                            /\ IF strip(response_content) # NO_INFO_FOUND
                               THEN /\ printed' = <<"Assistant: ">> \o response_content
                                    /\ UNCHANGED <<tickets, clock>>
                               ELSE \E raw2 \in ConfirmInputs :
                                    IF lower(strip(raw2)) \in YesWords
                                    THEN \E hex \in UuidHex, up \in BOOLEAN :
                                         LET made == create_support_ticket(
                                                 tickets, Anonymous, user_input,
                                                 hex, up, clock + 1)
                                         IN  /\ tickets' = made.tickets
                                             /\ clock' = clock + 1
                                             /\ printed' = <<"Assistant: ">> \o response_content
                                                   \o <<"Assistant: I apologize, I don't have an answer to that.",
                                                        "Support ticket #">> \o made.ticket_id
                                                   \o <<" created successfully. Our support team will reach out to you soon.">>
                                    ELSE /\ printed' = <<"Assistant: ">> \o response_content
                                               \o <<"Assistant: I apologize, I don't have an answer to that.",
                                                    "Okay, no ticket created.">>
                                         /\ UNCHANGED <<tickets, clock>>
    /\ UNCHANGED <<reply, request, channel>>
    /\ UNCHANGED <<faq, teams, faqTable, ncalls, call, result, tickets0>>
    /\ UNCHANGED <<ixVars, turnVars>>

\* api.py: Message(content, type)
Message(content, type) == [content |-> content, type |-> type]

RECURSIVE convert_to_langchain_messages(_)
convert_to_langchain_messages(messages) ==
    IF messages = <<>> THEN <<>>
    ELSE LET msg == Head(messages)
             rest == convert_to_langchain_messages(Tail(messages))
         IN  IF msg.type = "human" THEN <<HumanMessage(msg.content)>> \o rest
             ELSE IF msg.type = "ai" THEN <<AIMessage(msg.content)>> \o rest
             ELSE rest

RECURSIVE convert_from_langchain_messages(_)
convert_from_langchain_messages(messages) ==
    IF messages = <<>> THEN <<>>
    ELSE LET msg == Head(messages)
             rest == convert_from_langchain_messages(Tail(messages))
         IN  IF msg.type = "human" THEN <<Message(msg.content, "human")>> \o rest
             ELSE IF msg.type = "ai" THEN <<Message(msg.content, "ai")>> \o rest
             ELSE rest

\* The conversation a client sends: n messages, human and assistant in
\* turn, each with a content of its own.
Conversation(n) ==
    [i \in 1..n |-> Message(<<"m", LowerLetters[i]>>,
                            IF i % 2 = 1 THEN "human" ELSE "ai")]

ApiHistories == {Conversation(n) : n \in 0..MaxMessages}

\* response_history[-1] where response_history is the message that
\* process_graph_with_agent returned: a message has no __getitem__, the
\* subscript raises TypeError.
message_getitem(message, i) == RaisedRow

NoReply == [status |-> 0, agent_response |-> <<>>,
            updated_conversation_history |-> <<>>]

NoRequest == [user_input |-> <<>>, conversation_history |-> <<>>]

HTTPException(status_code) ==
    [status |-> status_code, agent_response |-> <<>>,
     updated_conversation_history |-> <<>>]

ChatResponse(agent_response, updated_conversation_history) ==
    [status |-> 200, agent_response |-> agent_response,
     updated_conversation_history |-> updated_conversation_history]

\* POST /chat
chat_with_agent(user_input, conversation_history) ==
    /\ channel = "api"
    /\ request' = [user_input |-> user_input,
                   conversation_history |-> conversation_history]
    /\ IF is_conversational(user_input) \/ is_goodbye(user_input)
       THEN LET response_content == handle_conversational_query(user_input)
                temp_history ==
                    Append(Append(convert_to_langchain_messages(conversation_history),
                                  HumanMessage(user_input)),
                           AIMessage(response_content))
            IN  /\ reply' = ChatResponse(response_content,
                                         convert_from_langchain_messages(temp_history))
                /\ handed' = NoHanded
       ELSE \E r \in FinalResults :
            LET langchain_history ==
                    Append(convert_to_langchain_messages(conversation_history),
                           HumanMessage(user_input))
                response_history ==
                    process_graph_with_agent(user_input, langchain_history, r)
                agent_response_message ==
                    IF response_history = RaisedRow THEN RaisedRow
                    ELSE message_getitem(response_history, -1)
                executor == ExecutorInput(Append(langchain_history,
                                                 HumanMessage(user_input)))
            IN  /\ handed' = [input |-> executor.input,
                              chat_history |-> executor.chat_history,
                              conversation |->
                                  convert_to_langchain_messages(conversation_history),
                              turn |-> TRUE]
                /\ IF agent_response_message = RaisedRow
                   THEN reply' = HTTPException(500)
                   ELSE reply' = ChatResponse(
                            agent_response_message.content,
                            convert_from_langchain_messages(response_history))
    /\ UNCHANGED <<history, running, printed, channel>>
    /\ UNCHANGED <<ixVars, turnVars, toolVars>>

SessionIdle ==
    /\ channel = "none"
    /\ history = <<>>
    /\ running = FALSE
    /\ printed = <<>>
    /\ handed = NoHanded
    /\ reply = NoReply
    /\ request = NoRequest

InitSession ==
    /\ channel \in {"cli", "api"}
    /\ history = <<>>
    /\ running = (channel = "cli")
    /\ printed = <<>>
    /\ handed = NoHanded
    /\ reply = NoReply
    /\ request = NoRequest

NextSession ==
    \/ \E raw \in SessionInputs : CliTurn(raw)
    \/ \E user_input \in SessionInputs, conversation_history \in ApiHistories :
          chat_with_agent(user_input, conversation_history)

(***************************************************************************)
(* Specifications.                                                         *)
(***************************************************************************)
InitSpecIndex == InitIndex /\ TurnIdle /\ ToolsIdle /\ SessionIdle

SpecIndex == InitSpecIndex /\ [][NextIndex]_vars

InitSpecTurn == IndexIdle /\ TurnIdle /\ ToolsIdle /\ SessionIdle

SpecTurn == InitSpecTurn /\ [][NextTurn]_vars

InitSpecTools == IndexIdle /\ TurnIdle /\ InitTools /\ SessionIdle

SpecTools == InitSpecTools /\ [][NextTools]_vars

InitSpecSession == IndexIdle /\ TurnIdle /\ ToolsIdle /\ InitSession

SpecSession == InitSpecSession /\ [][NextSession]_vars

(***************************************************************************)
(* Properties of the indexing runs.                                        *)
(***************************************************************************)
\* The file the one edit since the last completed run changed, if that edit
\* replaced the content of a readable supported file.
ChangedFile == ixg.mod

OneFileChanged == ChangedFile \notin {"none", "other"}

\* C1: a run that follows a completed run, with no directory entry added,
\* removed or changed since that earlier run began, marks no file, loads no
\* document and leaves the index as it found it.
C1_UnchangedNotReprocessed ==
    ixg.quiet => /\ ixg.marked = {}
                 /\ ixg.loaded = {}
                 /\ index = ixg.idx0

\* C2: when exactly one readable supported file had its content changed
\* since the last completed run, the scan of the next run marks that file and
\* no other, and after that run's tracker update the entry under the file's
\* name and size holds the hash of the new content.
C2_ChangedFileMarked ==
    OneFileChanged =>
        /\ ixg.scanned => ixg.marked = {ChangedFile}
        /\ ixg.tracked =>
              /\ file_key(ChangedFile, files[ChangedFile]) \in DOMAIN tracker
              /\ tracker[file_key(ChangedFile, files[ChangedFile])].hash
                    = Md5(files[ChangedFile].content)


(***************************************************************************)
(* Properties of a turn.                                                   *)
(***************************************************************************)
\* C3: when process_graph_with_agent returns, the capability invocations
\* executed during the call are exactly the ones the model requested in the
\* graph run whose answer is returned, each once and in that order (so the
\* graph was not run a second time with effect).
C3_EachRequestExecutedOnce ==
    tpc = "done" => log = tg.requested

\* C4: when the model requested no capability in the run whose final state is
\* returned, that state's history is the input history, the user message and
\* one assistant message with the response's text, and its scratchpad is
\* empty.
C4_DirectAnswer ==
    (tpc = "done" /\ tg.requested = <<>>) =>
        /\ chat_history = tg.history \o <<HumanMessage(tg.input)>>
                                     \o <<AIMessage(tg.answer)>>
        /\ returned = AIMessage(tg.answer)
        /\ agent_outcome = <<>>

C4_Witness ==
    /\ tpc = "done" /\ tg.requested = <<>>
    /\ tg.history # <<>>
    /\ returned.content = "t2"

RunAgentStep == tpc = "agent" /\ cycles' = cycles + 1

\* C15: when the result of the executor is neither a message nor a
\* dictionary, the agent node appends exactly one assistant message holding
\* the text of the result, leaves the scratchpad empty, and the turn ends
\* instead of going to the tools node.
C15_UnexpectedResultEndsTurn ==
    [][(RunAgentStep /\ tg'.kind = "other") =>
          /\ tg'.answer \in {ToStr(0), ToStr(1)}
          /\ chat_history' = Append(chat_history, AIMessage(tg'.answer))
          /\ agent_outcome' = <<>>
          /\ tpc' = "end"]_vars

C15_Witness ==
    /\ tpc = "end" /\ tg.kind = "other"
    /\ tg.requested # <<>>
    /\ agent_outcome = <<>>
    /\ chat_history[Len(chat_history)] = AIMessage(ToStr(1))
    /\ Len(chat_history) >= 3

(***************************************************************************)
(* Properties of the capabilities.                                         *)
(***************************************************************************)
QueryDatabaseCall == call.tool = "query_database_tool"

\* C6, as stated: whenever an FAQ match and a team match both exist for the
\* question of a query_database_tool call and no answered ticket matches,
\* the FAQ answer is returned.
C6_FaqBeforeTeam ==
    (/\ QueryDatabaseCall
     /\ ~Truthy(call.ticket_answer)
     /\ Truthy(call.faq_result)
     /\ Truthy(call.team_result)) => result = call.faq_result

\* C6, amended: query_database_tool returns the answered-ticket response when
\* that lookup yields a non-empty one; otherwise it consults the FAQ lookup
\* before the team lookup when is_general_question holds of the question, and
\* the team lookup before the FAQ lookup when it does not, and returns the
\* first of the two that yields an answer, or the sentinel when neither does.
C6_OrderByQuestionKind ==
    QueryDatabaseCall =>
        LET general == is_general_question(call.question)
            first == IF general THEN call.faq_result ELSE call.team_result
            second == IF general THEN call.team_result ELSE call.faq_result
        IN  result = IF Truthy(call.ticket_answer) THEN call.ticket_answer
                     ELSE IF Truthy(first) THEN first
                     ELSE IF Truthy(second) THEN second
                     ELSE NO_INFO_FOUND

\* A question that is not general, with an FAQ match and a team match and no
\* answered ticket: the team answer came back.
C6_Witness ==
    /\ QueryDatabaseCall
    /\ ~is_general_question(call.question)
    /\ ~Truthy(call.ticket_answer)
    /\ Truthy(call.faq_result)
    /\ Truthy(call.team_result)
    /\ result = call.team_result
    /\ result # call.faq_result

\* The tickets, as the last call found the table, whose issue is the
\* question and whose response is not NULL.
AnsweredTickets(question) ==
    {i \in DOMAIN tickets0 : /\ tickets0[i].issue = question
                             /\ tickets0[i].response # NULL}

\* C7: if the table holds a ticket whose issue equals the question and whose
\* response is not NULL, query_database_tool returns the response of the
\* most recently created such ticket.
C7_AnsweredTicketReturned ==
    (QueryDatabaseCall /\ AnsweredTickets(call.question) # {}) =>
        \E i \in AnsweredTickets(call.question) :
            /\ \A j \in AnsweredTickets(call.question) :
                   tickets0[j].created_at <= tickets0[i].created_at
            /\ result = tickets0[i].response

\* The answers of ConfirmInputs that are yes or y once surrounding
\* whitespace and case are set aside.
AcceptedAnswers == {<<" ", "Y", " ">>, <<"Y", "e", "s", "\n">>}

CreateTicketStep ==
    ncalls' = ncalls + 1 /\ call'.tool = "create_support_ticket_tool"

\* C8: a create_support_ticket_tool call changes the tickets table only when
\* the prompt was answered yes or y (any case, surrounding whitespace
\* ignored), and such an answer is never taken for a refusal; after any other
\* answer the table is left as it was and the call returns exactly
\* "Okay, no ticket was created.".
C8_TicketOnlyWhenConfirmed ==
    [][CreateTicketStep =>
          /\ tickets' # tickets => call'.confirm \in AcceptedAnswers
          /\ call'.confirm \in AcceptedAnswers => result' # NoTicketCreated
          /\ call'.confirm \notin AcceptedAnswers =>
                 /\ tickets' = tickets
                 /\ result' = NoTicketCreated]_vars

\* The prompt was answered " Y " and a ticket was inserted.
C8_Witness ==
    /\ call.tool = "create_support_ticket_tool"
    /\ call.confirm = <<" ", "Y", " ">>
    /\ Len(tickets) = Len(tickets0) + 1
    /\ tickets[Len(tickets)].ticket_id = call.ticket_id

\* C9: whatever the store and the index do, each capability call returns a
\* text and lets no exception out.
C9_CapabilitiesReturnText ==
    call.tool # "none" => result \notin {Raised, None, NULL, <<>>}

\* check_ticket_status_tool was called while the store could not be reached.
C9_Witness ==
    /\ call.tool = "check_ticket_status_tool"
    /\ call.errors = {"ticket"}
    /\ result = <<"Ticket ">> \o call.ticket_id \o <<" not found.">>

\* C10: a query_database_tool call during which a lookup met a store error
\* returns an error string, and the sentinel is returned only by a call all
\* of whose lookups reached the store.
C10_StoreErrorReported ==
    QueryDatabaseCall =>
        /\ call.errors # {} => result = DatabaseQueryError
        /\ result = NO_INFO_FOUND => call.errors = {}

CheckStatusStep ==
    ncalls' = ncalls + 1 /\ call'.tool = "check_ticket_status_tool"

\* C11: a check_ticket_status_tool call for an id that no ticket of the table
\* carries returns exactly "Ticket <id> not found.", lets no exception out,
\* and leaves the three tables as they were.
C11_UnknownTicketNotFound ==
    [][(/\ CheckStatusStep
        /\ \A i \in DOMAIN tickets : tickets[i].ticket_id # call'.ticket_id) =>
           /\ result' = <<"Ticket ">> \o call'.ticket_id \o <<" not found.">>
           /\ result' # Raised
           /\ tickets' = tickets /\ faq' = faq /\ teams' = teams]_vars

\* The table holds a ticket, the store was reached, and the id asked for is
\* not the ticket's.
C11_Witness ==
    /\ call.tool = "check_ticket_status_tool"
    /\ call.errors = {}
    /\ tickets0 # <<>>
    /\ \A i \in DOMAIN tickets0 : tickets0[i].ticket_id # call.ticket_id
    /\ result = <<"Ticket ">> \o call.ticket_id \o <<" not found.">>

\* The answers of LlmOutcomes that hold a not-found phrase, case set aside.
PhrasedAnswers ==
    {<<"I", " ", "C", "o", "u", "l", "d", "n", "'", "t", " ", "f", "i", "n",
       "d", " ", "i", "t">>}

QueryRagCall == call.tool = "query_rag_tool"

\* C12: when the index holds no chunk, or the retriever gives none for the
\* question, rag_search returns None without having reached llm.invoke; when
\* get_vectorstore, the retriever or the language model raises, it returns
\* None as well; in no case does an exception leave it.
C12_NothingRetrievedIsNone ==
    QueryRagCall =>
        /\ (call.store.ok /\ (call.store.count = 0 \/ call.relevant_docs = <<>>)) =>
               /\ call.rag_result = None
               /\ ~llm_invoked(call.store, call.relevant_docs)
        /\ (~call.store.ok \/ call.relevant_docs = Raised \/ call.response = Raised) =>
               call.rag_result = None
        /\ call.rag_result # Raised
        /\ result # Raised

\* The store was opened and holds no chunk, while the language model would
\* have answered.
C12_Witness ==
    /\ QueryRagCall
    /\ call.store = [ok |-> TRUE, count |-> 0]
    /\ call.relevant_docs = <<"chunk">>
    /\ Truthy(call.response) /\ call.response # Raised
    /\ call.rag_result = None
    /\ result = <<"No relevant information found in documentation.">>

\* C13: when the language model answered and its answer contains one of the
\* not-found phrases in any spelling of case, rag_search returns None and
\* query_rag_tool returns "No relevant information found in documentation.";
\* otherwise rag_search returns the answer stripped of surrounding
\* whitespace, and query_rag_tool hands that text on when it is not empty.
C13_NotFoundPhrases ==
    (/\ QueryRagCall
     /\ llm_invoked(call.store, call.relevant_docs)
     /\ call.response # Raised) =>
        IF call.response \in PhrasedAnswers
        THEN /\ call.rag_result = None
             /\ result = <<"No relevant information found in documentation.">>
        ELSE /\ call.rag_result = strip(call.response)
             /\ call.rag_result # <<>> => result = call.rag_result

\* The answer "I Couldn't find it" was taken for a not-found answer.
C13_Witness ==
    /\ QueryRagCall
    /\ llm_invoked(call.store, call.relevant_docs)
    /\ call.response \in PhrasedAnswers
    /\ call.rag_result = None
    /\ result = <<"No relevant information found in documentation.">>

\* C24: check_ticket_status_tool answers "Ticket <id> not found." only when
\* the store holds no ticket with that id: a ticket that exists is never
\* reported as not found, whether or not the store could be queried.
C24_NotFoundOnlyWhenAbsent ==
    (/\ call.tool = "check_ticket_status_tool"
     /\ result = <<"Ticket ">> \o call.ticket_id \o <<" not found.">>) =>
        \A i \in DOMAIN tickets : tickets[i].ticket_id # call.ticket_id

UpperHexDigits == {"0", "1", "2", "3", "4", "5", "6", "7", "8", "9",
                   "A", "B", "C", "D", "E", "F"}

\* TKT- followed by 8 uppercase hexadecimal characters
TicketIdForm(id) ==
    /\ Len(id) = 12
    /\ SubSeq(id, 1, 4) = <<"T", "K", "T", "-">>
    /\ \A i \in 5..12 : id[i] \in UpperHexDigits

\* C18: every row a step adds to the table tickets has an id of the form
\* TKT- plus 8 uppercase hexadecimal characters, status open and no
\* response; and no two rows of the table share a ticket_id, in whatever
\* order the sessions' creations reach the store.
C18_TicketIdsUnique ==
    [][/\ \A i \in DOMAIN tickets' :
            i \notin DOMAIN tickets =>
                /\ TicketIdForm(tickets'[i].ticket_id)
                /\ tickets'[i].status = "open"
                /\ tickets'[i].response = NULL
       /\ \A i, j \in DOMAIN tickets' :
            i # j => tickets'[i].ticket_id # tickets'[j].ticket_id]_vars

\* A creation whose id was taken already: the store refused the row.
C18_Witness ==
    /\ call.tool = "create_support_ticket_tool"
    /\ confirmed(call.confirm) /\ call.errors = {}
    /\ call.ticket_id = None
    /\ Len(tickets) = 1 /\ tickets = tickets0
    /\ TicketIdForm(tickets[1].ticket_id)

(***************************************************************************)
(* Properties of the front ends.                                           *)
(***************************************************************************)
\* The last (at most) ten messages of a conversation.
Window(conversation) ==
    SubSeq(conversation,
           IF Len(conversation) > 10 THEN Len(conversation) - 9 ELSE 1,
           Len(conversation))

\* C14: the history handed to the language model for a turn is the (at most)
\* ten most recent messages of the conversation before the turn, plus the
\* latest user message; no older message of the conversation is handed over.
C14_WindowOfTen ==
    handed.turn =>
        handed.chat_history \in
            {Window(handed.conversation),
             Append(Window(handed.conversation), HumanMessage(handed.input))}

(***************************************************************************)
(* Properties of the tracker and of the index.                             *)
(***************************************************************************)
\* A step that executes update_document_tracker.
TrackStep == stack # <<>> /\ Top.pc = "track" /\ ixg'.tracked /\ stack' # stack

\* C16: every supported, readable file present when the tracker update of a
\* run executes has an entry with its current hash and size afterwards, and
\* no step removes the tracker entry of a file that still exists.
C16_TrackerKeepsEntries ==
    [][/\ TrackStep =>
            \A n \in Names :
                Hashable(files, n) =>
                    /\ file_key(n, files[n]) \in DOMAIN tracker'
                    /\ tracker'[file_key(n, files[n])] =
                           [hash |-> get_file_hash(files[n]), filename |-> n,
                            size |-> getsize(files[n])]
       /\ \A k \in DOMAIN tracker :
            files'[k[1]].present =>
                k \in DOMAIN tracker' /\ tracker'[k].filename = k[1]]_vars

C16_Witness ==
    /\ ixg.tracked
    /\ \E n \in Names :
          /\ Hashable(files, n)
          /\ file_key(n, files[n]) \in DOMAIN tracker
          /\ tracker[file_key(n, files[n])].hash = get_file_hash(files[n])
          /\ \E k \in DOMAIN tracker : k[1] = n /\ k # file_key(n, files[n])

\* C17: no step takes a chunk out of the index; and when a run has
\* re-processed a file whose content was modified since the run before, the
\* index holds the chunk of the new content next to every chunk it held when
\* the run began, those of the old content included.
C17_ChunksOnlyGrow ==
    [][/\ \A ch \in AllChunks : index'[ch] >= index[ch]
       /\ (/\ stack # <<>> /\ stack' = <<>>
           /\ OneFileChanged
           /\ <<ChangedFile, files[ChangedFile].content>> \in ixg.loaded) =>
              /\ index'[<<ChangedFile, files[ChangedFile].content>>] >= 1
              /\ \A ch \in AllChunks : index'[ch] >= ixg.idx0[ch]]_vars

C17_Witness ==
    /\ stack = <<>> /\ runs >= 2
    /\ OneFileChanged
    /\ <<ChangedFile, files[ChangedFile].content>> \in ixg.loaded
    /\ index[<<ChangedFile, files[ChangedFile].content>>] >= 1
    /\ \E c \in Contents :
          /\ c # files[ChangedFile].content
          /\ ixg.idx0[<<ChangedFile, c>>] >= 1
          /\ index[<<ChangedFile, c>>] >= 1

\* The files the last run loaded with a content that was replaced, while
\* the run was in progress, by the content they have now.
EditedDuringRun ==
    {n \in Names : /\ ixg.dirty
                   /\ Hashable(files, n) /\ Loads(files[n])
                   /\ \E c \in Contents : /\ <<n, c>> \in ixg.loaded
                                          /\ c # files[n].content}

\* C21: a modification of a file made while a run was in progress, after the
\* run loaded the file, is not lost.  Once the run is over, with a store the
\* later runs find and no edit since, either the chunk of the new content is
\* in the index or the next scan marks the file.
C21_ConcurrentEditNotLost ==
    (stack = <<>> /\ parquet /\ ixg.after = <<>>) =>
        \A n \in EditedDuringRun :
            \/ index[<<n, files[n].content>>] >= 1
            \/ n \in get_new_or_modified_documents(files, tracker)

\* C22: the mutual calls of get_vectorstore and initialize_vectorstore end
\* within the MaxDepth nested calls that are followed here: the innermost of
\* MaxDepth nested initialize_vectorstore calls does not stand before
\* get_vectorstore once more.
C22_MutualCallsEnd ==
    Len(stack) = MaxDepth => Top.pc \notin {"getvs_early", "getvs_add"}

\* C20: between runs, with no edit since the last run began, a file that the
\* next scan would skip (its tracker entry holds its current size and hash)
\* has the chunk of its current content in the index; so a file whose
\* loading failed is marked again by the next scan.
C20_TrackedOnlyIfLoaded ==
    (stack = <<>> /\ runs >= 1 /\ ~ixg.dirty) =>
        \A n \in Names :
            (/\ Hashable(files, n)
             /\ ixg.after = <<>>
             /\ n \notin get_new_or_modified_documents(files, tracker)) =>
                index[<<n, files[n].content>>] >= 1

\* C19: the response to a chat request carries the assistant text and an
\* updated message list equal to the list of the request followed by one
\* human message holding the user input and one assistant message holding
\* that text, for canned replies and for queries the agent processed.
C19_ReplyExtendsHistory ==
    request # NoRequest =>
        /\ reply.status = 200
        /\ reply.updated_conversation_history =
              request.conversation_history
                  \o <<Message(request.user_input, "human"),
                       Message(reply.agent_response, "ai")>>

\* What the loop of main() prints after create_support_ticket returned id.
CliSuccessText(id) ==
    <<"Support ticket #">> \o id
        \o <<" created successfully. Our support team will reach out to you soon.">>

EndsWith(s, t) ==
    Len(s) >= Len(t) /\ SubSeq(s, Len(s) - Len(t) + 1, Len(s)) = t

\* C23: the command-line fallback tells the user that a support ticket was
\* created successfully only if the row was persisted: the id it prints is the
\* ticket_id of a row of the table tickets.
C23_SuccessOnlyIfPersisted ==
    (printed # <<>> /\ EndsWith(printed, Tail(CliSuccessText(<<>>)))) =>
        \E i \in DOMAIN tickets :
            EndsWith(printed, CliSuccessText(tickets[i].ticket_id))

====
